---------------------------- MODULE Spec2Model ----------------------------
(***************************************************************************)
(* Model of the pastebin client of src/pastebin.go.                        *)
(*                                                                         *)
(* Strings are sequences of text chunks: "Bad API request, invalid         *)
(* api_user_key" is <<BadApiRequest, InvalidKeySuffix>>, so that           *)
(* strings.HasPrefix, strings.TrimPrefix, string equality and              *)
(* concatenation are computed on the text and not assumed.                 *)
(*                                                                         *)
(* One Client is modelled.  A call runs as a stack of frames of            *)
(* doPastebinRequest and login, one step per HTTP exchange or return; the  *)
(* remote service answers each exchange with any response of Responses.    *)
(***************************************************************************)
EXTENDS Naturals, Sequences, FiniteSets

VARIABLES
    username,         \* Client.username
    password,         \* Client.password
    developerApiKey,  \* Client.developerApiKey
    sessionKey,       \* Client.sessionKey
    stack,            \* the frames of doPastebinRequest / login in progress
    ret,              \* the value the frame that just returned hands its caller
    call,             \* the exported call in progress, or the last one made
    log,              \* the HTTP exchanges of that call, in order
    result,           \* what the last finished call returned
    calls             \* the number of calls started on the Client

vars == <<username, password, developerApiKey, sessionKey, stack, ret, call,
          log, result, calls>>

-----------------------------------------------------------------------------
(* Bounds and inputs *)

MaxCalls == 2

-----------------------------------------------------------------------------
(* Constants of the program *)

LoginApiUrl == <<"https://pastebin.com/api/api_login.php">>
PostApiUrl == <<"https://pastebin.com/api/api_post.php">>
RawApiUrl == <<"https://pastebin.com/api/api_raw.php">>
ScrapingApiUrl == <<"https://scrape.pastebin.com/api_scraping.php">>
RawUrlPrefix == <<"https://pastebin.com/raw">>

ErrNotAuthenticated == <<"must be authenticated to perform this action">>

BadApiRequest == "Bad API request"
InvalidKeySuffix == ", invalid api_user_key"
InvalidApiUserKey == <<BadApiRequest, InvalidKeySuffix>>
PastebinUrl == "https://pastebin.com/"
ReAuthContext == "failed to re-authenticate on invalid api_user_key response: "

VisibilityPublic == 0
VisibilityUnlisted == 1
VisibilityPrivate == 2
ExpirationNever == <<"never">>

-----------------------------------------------------------------------------
(* Text *)

HasPrefix(s, prefix) ==
    /\ Len(s) >= Len(prefix)
    /\ SubSeq(s, 1, Len(prefix)) = prefix

TrimPrefix(s, prefix) ==
    IF HasPrefix(s, prefix) THEN SubSeq(s, Len(prefix) + 1, Len(s)) ELSE s

Last(s) == s[Len(s)]

-----------------------------------------------------------------------------
(* The inputs: what callers pass and what the remote service answers *)

PasteElement == "<paste>..</paste>"
MalformedXml == "<"
JsonArray == "[..]"

\* Response bodies: empty, plain text, the error texts and their near misses,
\* a paste URL, an XML list fragment and a JSON array.
Bodies ==
    { <<>>,
      <<"abc123">>,
      <<"def456">>,
      <<BadApiRequest>>,
      InvalidApiUserKey,
      <<BadApiRequest, InvalidKeySuffix, "abc123">>,
      <<BadApiRequest, ", invalid login">>,
      <<InvalidKeySuffix>>,
      <<PastebinUrl, "abc123">>,
      <<PastebinUrl, BadApiRequest>>,
      <<"abc123", BadApiRequest>>,
      <<PasteElement, PasteElement>>,
      <<PasteElement, MalformedXml>>,
      <<JsonArray>> }

\* kind "transport": client.Do failed; "read": the body could not be read;
\* "http": a response with its status and body.
Responses ==
    [kind : {"http"}, status : {200}, body : Bodies]
    \cup [kind : {"http"}, status : {500}, body : {<<>>, InvalidApiUserKey, <<"abc123">>}]
    \cup [kind : {"read"}, status : {200}, body : {<<>>}]
    \cup [kind : {"transport"}, status : {0}, body : {<<>>}]

Usernames == {<<>>, <<"user">>}
PasteKeys == {<<"abc123">>}
Requests ==
    [Title : {<<"title">>}, Code : {<<"code">>}, Syntax : {<<"go">>},
     Visibility : {VisibilityPublic, VisibilityUnlisted, VisibilityPrivate},
     Expiration : {<<>>, <<"10M">>}]

NoRequest ==
    [Title |-> <<>>, Code |-> <<>>, Syntax |-> <<>>,
     Visibility |-> VisibilityPublic, Expiration |-> <<>>]
NoFields == <<>>

-----------------------------------------------------------------------------
(* Values handed between frames and to the caller *)

NoRet == [set |-> FALSE, err |-> FALSE, val |-> <<>>]
Ok(v) == [set |-> TRUE, err |-> FALSE, val |-> v]
Err(text) == [set |-> TRUE, err |-> TRUE, val |-> text]

NoResult == [err |-> FALSE, val |-> <<>>, pastes |-> <<>>]
Success(v, ps) == [err |-> FALSE, val |-> v, pastes |-> ps]
Failure(text) == [err |-> TRUE, val |-> text, pastes |-> <<>>]

Frame(fn, apiUrl, fields, reauth, pc) ==
    [fn |-> fn, apiUrl |-> apiUrl, fields |-> fields, reauth |-> reauth, pc |-> pc]

Top == stack[Len(stack)]
Pop == SubSeq(stack, 1, Len(stack) - 1)
TopAt(pc) == [stack EXCEPT ![Len(stack)].pc = pc]

Idle == ~call.active /\ stack = <<>> /\ ~ret.set

Started(op, request, pasteKey) ==
    [op |-> op, active |-> TRUE, request |-> request, pasteKey |-> pasteKey,
     startKey |-> sessionKey]
Finished(op, request, pasteKey) ==
    [op |-> op, active |-> FALSE, request |-> request, pasteKey |-> pasteKey,
     startKey |-> sessionKey]

-----------------------------------------------------------------------------
(* Errors of the transport *)

TransportErrorText == <<"transport error">>
ReadErrorText == <<"read error">>
StatusText(status) == <<IF status = 500 THEN "500 Internal Server Error" ELSE "200 OK">>

-----------------------------------------------------------------------------
(* doPastebinRequest and login *)

\* A variant that lets every status through.
StatusOkAlways(resp) == TRUE

\* response.StatusCode != 200 rejects the response
StatusOk(resp) == resp.status = 200

\* the response that starts a re-authentication
NeedsReAuth(reAuthenticateOnInvalidSessionKey, body) ==
    reAuthenticateOnInvalidSessionKey /\ body = InvalidApiUserKey

\* A variant that compares the whole body instead of its prefix.
IsApiErrorExact(body) == body = <<BadApiRequest>>

\* strings.HasPrefix(string(body), "Bad API request")
IsApiError(body) == HasPrefix(body, <<BadApiRequest>>)

\* A variant that returns the login error as it is.
ReAuthErrorBare(text) == text

\* fmt.Errorf("failed to re-authenticate on invalid api_user_key response: %s", err.Error())
ReAuthError(text) == <<ReAuthContext>> \o text

\* A variant whose retry may re-authenticate again.
RetryReAuthenticateAgain == TRUE

\* the retry: c.doPastebinRequest(apiUrl, fields, false)
RetryFields(fields) == fields
RetryReAuthenticate == FALSE

\* A variant that strips the site prefix from the key, as CreatePaste does.
LoginSessionKeyTrimmed(responseBody) == TrimPrefix(responseBody, <<PastebinUrl>>)

\* c.sessionKey = string(responseBody)
LoginSessionKey(responseBody) == responseBody

LoginFields ==
    [api_user_name |-> username,
     api_user_password |-> password,
     api_dev_key |-> developerApiKey]

Exchange(method, url, fields, resp) ==
    [method |-> method, url |-> url, fields |-> fields, resp |-> resp,
     key |-> sessionKey]

\* One HTTP exchange of doPastebinRequest and the inspection of its response.
doPastebinRequest ==
    /\ stack # <<>>
    /\ Top.fn = "doPastebinRequest"
    /\ Top.pc = "send"
    /\ \E resp \in Responses :
         /\ log' = Append(log, Exchange("POST", Top.apiUrl, Top.fields, resp))
         /\ IF resp.kind = "transport"
              THEN stack' = Pop /\ ret' = Err(TransportErrorText)
            ELSE IF ~StatusOk(resp)
              THEN stack' = Pop /\ ret' = Err(StatusText(resp.status))
            ELSE IF resp.kind = "read"
              THEN stack' = Pop /\ ret' = Err(ReadErrorText)
            ELSE IF NeedsReAuth(Top.reauth, resp.body)
              THEN /\ stack' = Append(TopAt("login"),
                                      Frame("login", <<>>, NoFields, FALSE, "start"))
                   /\ ret' = NoRet
            ELSE IF IsApiError(resp.body)
              THEN stack' = Pop /\ ret' = Err(resp.body)
            ELSE stack' = Pop /\ ret' = Ok(resp.body)
    /\ UNCHANGED <<username, password, developerApiKey, sessionKey, call, result, calls>>

\* doPastebinRequest after c.login() returned: the error, or the retry.
doPastebinRequestReAuthenticated ==
    /\ stack # <<>>
    /\ Top.fn = "doPastebinRequest"
    /\ Top.pc = "login"
    /\ ret.set
    /\ IF ret.err
         THEN stack' = Pop /\ ret' = Err(ReAuthError(ret.val))
         ELSE /\ stack' = Append(TopAt("retry"),
                                 Frame("doPastebinRequest", Top.apiUrl,
                                       RetryFields(Top.fields), RetryReAuthenticate, "send"))
              /\ ret' = NoRet
    /\ UNCHANGED <<username, password, developerApiKey, sessionKey, call, log, result, calls>>

\* doPastebinRequest returns what the retry returned.
doPastebinRequestRetried ==
    /\ stack # <<>>
    /\ Top.fn = "doPastebinRequest"
    /\ Top.pc = "retry"
    /\ ret.set
    /\ stack' = Pop
    /\ UNCHANGED <<username, password, developerApiKey, sessionKey, ret, call, log, result, calls>>

\* login calls doPastebinRequest(LoginApiUrl, ..., false).
login ==
    /\ stack # <<>>
    /\ Top.fn = "login"
    /\ Top.pc = "start"
    /\ stack' = Append(TopAt("wait"),
                       Frame("doPastebinRequest", LoginApiUrl, LoginFields, FALSE, "send"))
    /\ UNCHANGED <<username, password, developerApiKey, sessionKey, ret, call, log, result, calls>>

\* login after its request returned: the error, or the new session key.
loginReturn ==
    /\ stack # <<>>
    /\ Top.fn = "login"
    /\ Top.pc = "wait"
    /\ ret.set
    /\ stack' = Pop
    /\ IF ret.err
         THEN sessionKey' = sessionKey /\ ret' = ret
         ELSE sessionKey' = LoginSessionKey(ret.val) /\ ret' = Ok(<<>>)
    /\ UNCHANGED <<username, password, developerApiKey, call, log, result, calls>>

-----------------------------------------------------------------------------
(* NewClient *)

Init ==
    /\ username \in Usernames
    /\ password = <<"password">>
    /\ developerApiKey = <<"devkey">>
    /\ sessionKey = <<>>
    /\ stack = <<>>
    /\ ret = NoRet
    /\ call = [op |-> "NewClient", active |-> TRUE, request |-> NoRequest,
               pasteKey |-> <<>>, startKey |-> <<>>]
    /\ log = <<>>
    /\ result = NoResult
    /\ calls = 0

\* NewClient once the Client is built: login when a username was given.
NewClient ==
    /\ call.op = "NewClient"
    /\ call.active
    /\ stack = <<>>
    /\ ~ret.set
    /\ IF Len(username) > 0
         THEN /\ stack' = <<Frame("login", <<>>, NoFields, FALSE, "start")>>
              /\ UNCHANGED <<call, result>>
         ELSE /\ call' = [call EXCEPT !.active = FALSE]
              /\ result' = Success(<<>>, <<>>)
              /\ UNCHANGED stack
    /\ UNCHANGED <<username, password, developerApiKey, sessionKey, ret, log, calls>>

NewClientReturn ==
    /\ call.op = "NewClient"
    /\ call.active
    /\ stack = <<>>
    /\ ret.set
    /\ result' = IF ret.err THEN Failure(ret.val) ELSE Success(<<>>, <<>>)
    /\ call' = [call EXCEPT !.active = FALSE]
    /\ ret' = NoRet
    /\ UNCHANGED <<username, password, developerApiKey, sessionKey, stack, log, calls>>

-----------------------------------------------------------------------------
(* The exported calls *)

\* A variant whose check never refuses.
NotAuthenticatedNever(key) == FALSE

\* len(c.sessionKey) == 0
NotAuthenticated(key) == Len(key) = 0

\* A variant that tests the wrong visibility.
CreatePasteNotAuthenticatedUnlisted(request, key) ==
    request.Visibility = VisibilityUnlisted /\ Len(key) = 0

\* request.Visibility == VisibilityPrivate && len(c.sessionKey) == 0
CreatePasteNotAuthenticated(request, key) ==
    request.Visibility = VisibilityPrivate /\ Len(key) = 0

\* A variant that ignores the request's expiration.
ExpirationFieldNever(request) == ExpirationNever

\* expirationField: ExpirationNever unless the request sets one
ExpirationField(request) ==
    IF Len(request.Expiration) > 0 THEN request.Expiration ELSE ExpirationNever

\* fmt.Sprintf("%d", request.Visibility)
FormatVisibility(v) ==
    <<CASE v = 0 -> "0" [] v = 1 -> "1" [] v = 2 -> "2">>

CreatePasteFields(request) ==
    [api_option |-> <<"paste">>,
     api_user_key |-> sessionKey,
     api_dev_key |-> developerApiKey,
     api_paste_name |-> request.Title,
     api_paste_code |-> request.Code,
     api_paste_format |-> request.Syntax,
     api_paste_expire_date |-> ExpirationField(request),
     api_paste_private |-> FormatVisibility(request.Visibility)]

DeletePasteFields(pasteKey) ==
    [api_option |-> <<"delete">>,
     api_user_key |-> sessionKey,
     api_dev_key |-> developerApiKey,
     api_paste_key |-> pasteKey]

ListUserPastesFields ==
    [api_option |-> <<"list">>,
     api_user_key |-> sessionKey,
     api_dev_key |-> developerApiKey,
     api_results_limit |-> <<"100">>]

GetRawUserPasteFields(pasteKey) ==
    [api_option |-> <<"show_paste">>,
     api_user_key |-> sessionKey,
     api_dev_key |-> developerApiKey,
     api_paste_key |-> pasteKey]

GetRecentPastesFields ==
    [api_option |-> <<"show_paste">>,
     api_user_key |-> sessionKey,
     api_dev_key |-> developerApiKey]

\* The call returns at once with ErrNotAuthenticated: nothing is sent.
Refuse(op, request, pasteKey) ==
    /\ call' = Finished(op, request, pasteKey)
    /\ result' = Failure(ErrNotAuthenticated)
    /\ log' = <<>>
    /\ calls' = calls + 1
    /\ UNCHANGED <<username, password, developerApiKey, sessionKey, stack, ret>>

\* The call hands its request to doPastebinRequest(apiUrl, fields, true).
Request(op, request, pasteKey, apiUrl, fields) ==
    /\ call' = Started(op, request, pasteKey)
    /\ result' = NoResult
    /\ log' = <<>>
    /\ calls' = calls + 1
    /\ stack' = <<Frame("doPastebinRequest", apiUrl, fields, TRUE, "send")>>
    /\ UNCHANGED <<username, password, developerApiKey, sessionKey, ret>>

\* doPastebinRequest has returned to the call `op`.
Returned(op) ==
    /\ call.op = op
    /\ call.active
    /\ stack = <<>>
    /\ ret.set

Return(res) ==
    /\ result' = res
    /\ call' = [call EXCEPT !.active = FALSE]
    /\ ret' = NoRet
    /\ UNCHANGED <<username, password, developerApiKey, sessionKey, stack, log, calls>>

CreatePaste ==
    /\ Idle
    /\ calls < MaxCalls
    /\ \E request \in Requests :
         IF CreatePasteNotAuthenticated(request, sessionKey)
           THEN Refuse("CreatePaste", request, <<>>)
           ELSE Request("CreatePaste", request, <<>>, PostApiUrl, CreatePasteFields(request))

CreatePasteReturn ==
    /\ Returned("CreatePaste")
    /\ Return(IF ret.err THEN Failure(ret.val)
              ELSE Success(TrimPrefix(ret.val, <<PastebinUrl>>), <<>>))

DeletePaste ==
    /\ Idle
    /\ calls < MaxCalls
    /\ \E pasteKey \in PasteKeys :
         IF NotAuthenticated(sessionKey)
           THEN Refuse("DeletePaste", NoRequest, pasteKey)
           ELSE Request("DeletePaste", NoRequest, pasteKey, RawApiUrl, DeletePasteFields(pasteKey))

DeletePasteReturn ==
    /\ Returned("DeletePaste")
    /\ Return(IF ret.err THEN Failure(ret.val) ELSE Success(<<>>, <<>>))

\* xml.Unmarshal of "<pastes>" + body + "</pastes>": an error on a malformed
\* fragment, else the <paste> elements in order (other text is skipped).
XmlUnmarshalFails(body) == \E i \in 1..Len(body) : body[i] = MalformedXml
IsPasteElement(chunk) == chunk = PasteElement
XmlPastes(body) == SelectSeq(body, IsPasteElement)
XmlDecodeErrorText == <<"XML syntax error">>

ToPaste(xmlPaste, user) == [Key |-> xmlPaste, Username |-> user]

ListUserPastes ==
    /\ Idle
    /\ calls < MaxCalls
    /\ IF NotAuthenticated(sessionKey)
         THEN Refuse("ListUserPastes", NoRequest, <<>>)
         ELSE Request("ListUserPastes", NoRequest, <<>>, PostApiUrl, ListUserPastesFields)

ListUserPastesReturn ==
    /\ Returned("ListUserPastes")
    /\ Return(IF ret.err THEN Failure(ret.val)
              ELSE IF XmlUnmarshalFails(ret.val) THEN Failure(XmlDecodeErrorText)
              ELSE Success(<<>>, [i \in 1..Len(XmlPastes(ret.val)) |->
                                     ToPaste(XmlPastes(ret.val)[i], username)]))

GetRawUserPaste ==
    /\ Idle
    /\ calls < MaxCalls
    /\ \E pasteKey \in PasteKeys :
         IF NotAuthenticated(sessionKey)
           THEN Refuse("GetRawUserPaste", NoRequest, pasteKey)
           ELSE Request("GetRawUserPaste", NoRequest, pasteKey, RawApiUrl,
                        GetRawUserPasteFields(pasteKey))

GetRawUserPasteReturn ==
    /\ Returned("GetRawUserPaste")
    /\ Return(IF ret.err THEN Failure(ret.val) ELSE Success(ret.val, <<>>))

\* json.Unmarshal of {"pastes":body}: the body must be one JSON array.
JsonUnmarshalFails(body) == body # <<JsonArray>>
JsonDecodeErrorText == <<"invalid character">>

GetRecentPastes ==
    /\ Idle
    /\ calls < MaxCalls
    /\ IF NotAuthenticated(sessionKey)
         THEN Refuse("GetRecentPastes", NoRequest, <<>>)
         ELSE Request("GetRecentPastes", NoRequest, <<>>, ScrapingApiUrl, GetRecentPastesFields)

\* The parsed records are dropped: the call returns string(responseBody).
GetRecentPastesReturn ==
    /\ Returned("GetRecentPastes")
    /\ Return(IF ret.err THEN Failure(ret.val)
              ELSE IF JsonUnmarshalFails(ret.val) THEN Failure(JsonDecodeErrorText)
              ELSE Success(ret.val, <<>>))

-----------------------------------------------------------------------------
(* GetRawPaste: the standalone fetch *)

\* fmt.Sprintf("%s/%s", RawUrlPrefix, pasteKey)
RawUrl(pasteKey) == RawUrlPrefix \o <<"/">> \o pasteKey

\* A variant that forgets the body's prefix.
GetRawPasteRejectsStatus(resp) == resp.status # 200

\* response.StatusCode != 200 || strings.HasPrefix(string(body), "Bad API request")
GetRawPasteRejects(resp) ==
    resp.status # 200 \/ HasPrefix(resp.body, <<BadApiRequest>>)

GetRawPaste ==
    /\ Idle
    /\ calls < MaxCalls
    /\ \E pasteKey \in PasteKeys, resp \in Responses :
         /\ call' = Finished("GetRawPaste", NoRequest, pasteKey)
         /\ log' = <<Exchange("GET", RawUrl(pasteKey), NoFields, resp)>>
         /\ result' = IF resp.kind = "transport" THEN Failure(TransportErrorText)
                      ELSE IF resp.kind = "read" THEN Failure(ReadErrorText)
                      ELSE IF GetRawPasteRejects(resp) THEN Failure(resp.body)
                      ELSE Success(resp.body, <<>>)
    /\ calls' = calls + 1
    /\ UNCHANGED <<username, password, developerApiKey, sessionKey, stack, ret>>

-----------------------------------------------------------------------------
(* The specification *)

Next ==
    \/ NewClient
    \/ NewClientReturn
    \/ login
    \/ loginReturn
    \/ doPastebinRequest
    \/ doPastebinRequestReAuthenticated
    \/ doPastebinRequestRetried
    \/ CreatePaste
    \/ CreatePasteReturn
    \/ DeletePaste
    \/ DeletePasteReturn
    \/ ListUserPastes
    \/ ListUserPastesReturn
    \/ GetRawUserPaste
    \/ GetRawUserPasteReturn
    \/ GetRecentPastes
    \/ GetRecentPastesReturn
    \/ GetRawPaste

Spec == Init /\ [][Next]_vars

\* A call, once made, runs to its return: the calls are synchronous and every
\* exchange ends with a response or an error of the transport.
RunCall ==
    \/ NewClient
    \/ NewClientReturn
    \/ login
    \/ loginReturn
    \/ doPastebinRequest
    \/ doPastebinRequestReAuthenticated
    \/ doPastebinRequestRetried
    \/ CreatePasteReturn
    \/ DeletePasteReturn
    \/ ListUserPastesReturn
    \/ GetRawUserPasteReturn
    \/ GetRecentPastesReturn

FairSpec == Spec /\ WF_vars(RunCall)

-----------------------------------------------------------------------------
(* Reading the exchanges of a call *)

SessionCalls == {"DeletePaste", "ListUserPastes", "GetRawUserPaste", "GetRecentPastes"}
ReAuthCalls == SessionCalls \cup {"CreatePaste"}
ClientCalls == ReAuthCalls \cup {"NewClient"}

Is200(e) == e.resp.kind = "http" /\ e.resp.status = 200
IsLoginExchange(e) == e.url = LoginApiUrl
LoginSucceeded(e) == IsLoginExchange(e) /\ Is200(e) /\ ~HasPrefix(e.resp.body, <<BadApiRequest>>)

\* The text of the error doPastebinRequest makes of a failed exchange.
ExchangeErrorText(e) ==
    IF e.resp.kind = "transport" THEN TransportErrorText
    ELSE IF e.resp.status # 200 THEN StatusText(e.resp.status)
    ELSE IF e.resp.kind = "read" THEN ReadErrorText
    ELSE e.resp.body

\* The call's first request was answered 200 with the invalid-session text.
SessionRejected ==
    /\ call.op \in ReAuthCalls
    /\ Len(log) >= 1
    /\ Is200(log[1])
    /\ log[1].resp.body = InvalidApiUserKey

CallDone == ~call.active

-----------------------------------------------------------------------------
(* C1: with an empty session key, DeletePaste, ListUserPastes,             *)
(* GetRawUserPaste and GetRecentPastes return ErrNotAuthenticated, send no *)
(* HTTP request (neither their own nor a login) and leave the session key  *)
(* empty.                                                                  *)
C1_NotAuthenticatedWithoutRequest ==
    (call.op \in SessionCalls /\ call.startKey = <<>>) =>
        /\ CallDone
        /\ result = Failure(ErrNotAuthenticated)
        /\ log = <<>>
        /\ stack = <<>>
        /\ sessionKey = <<>>

C1_Witness ==
    /\ call.op = "ListUserPastes"
    /\ call.startKey = <<>>
    /\ CallDone
    /\ result.err

(* C3: CreatePaste with private visibility and an empty session key        *)
(* returns ErrNotAuthenticated before any request is built or sent, and    *)
(* the session key is unchanged.                                           *)
C3_PrivateNeedsSession ==
    (/\ call.op = "CreatePaste"
     /\ call.request.Visibility = VisibilityPrivate
     /\ call.startKey = <<>>) =>
        /\ CallDone
        /\ result = Failure(ErrNotAuthenticated)
        /\ log = <<>>
        /\ stack = <<>>
        /\ sessionKey = call.startKey

C3_Witness ==
    /\ call.op = "CreatePaste"
    /\ call.request.Visibility = VisibilityPrivate
    /\ call.startKey = <<>>
    /\ result.err

(* C8: every request CreatePaste sends carries, as api_paste_expire_date,  *)
(* the "never" token when the request's Expiration is empty and the        *)
(* request's Expiration otherwise; a CreatePaste that passes the           *)
(* authentication check sends such a request.                              *)
C8_ExpirationDefault ==
    call.op = "CreatePaste" =>
        /\ \A i \in 1..Len(log) :
             log[i].url = PostApiUrl =>
                log[i].fields.api_paste_expire_date =
                    IF call.request.Expiration = <<>>
                      THEN ExpirationNever
                      ELSE call.request.Expiration
        /\ (CallDone /\ result # Failure(ErrNotAuthenticated)) =>
                Len(log) >= 1 /\ log[1].url = PostApiUrl

C8_Witness ==
    /\ call.op = "CreatePaste"
    /\ call.request.Expiration = <<>>
    /\ CallDone
    /\ Len(log) >= 1
    /\ log[1].fields.api_paste_expire_date = ExpirationNever

(* C10: every request sent with an api_user_key field carries the          *)
(* Client's session key as it is when the request is sent; after a         *)
(* successful re-login the retried request carries the new session key.    *)
C10_RequestCarriesCurrentKey ==
    \A i \in 1..Len(log) :
        (log[i].method = "POST" /\ ~IsLoginExchange(log[i])) =>
            log[i].fields.api_user_key = log[i].key

(* C7: GetRawPaste issues one unauthenticated GET; it returns an error     *)
(* when the status is not 200 or the body starts with "Bad API request",   *)
(* and the body text unmodified otherwise; it neither changes the session  *)
(* key nor triggers a login.                                               *)
C7_GetRawPaste ==
    call.op = "GetRawPaste" =>
        /\ CallDone
        /\ stack = <<>>
        /\ Len(log) = 1
        /\ log[1].method = "GET"
        /\ log[1].url = RawUrl(call.pasteKey)
        /\ log[1].fields = NoFields
        /\ sessionKey = call.startKey
        /\ log[1].resp.kind # "http" => result.err
        /\ (log[1].resp.kind = "http" /\ log[1].resp.status # 200) => result.err
        /\ (log[1].resp.kind = "http" /\ HasPrefix(log[1].resp.body, <<BadApiRequest>>))
                => result.err
        /\ (Is200(log[1]) /\ ~HasPrefix(log[1].resp.body, <<BadApiRequest>>))
                => result = Success(log[1].resp.body, <<>>)

C7_Witness ==
    /\ call.op = "GetRawPaste"
    /\ Is200(log[1])
    /\ result = Success(<<"abc123", BadApiRequest>>, <<>>)
    /\ sessionKey # <<>>

(* C2 as stated: in a call made with re-authentication allowed, a 200      *)
(* response that is exactly the invalid-session text triggers exactly one  *)
(* login request followed by exactly one retry of the request; if the      *)
(* retried response is again the invalid-session text, the call returns an *)
(* error and sends nothing further.                                        *)
C2_OneLoginOneRetry ==
    (SessionRejected /\ CallDone) =>
        /\ Len(log) = 3
        /\ IsLoginExchange(log[2])
        /\ log[3].url = log[1].url
        /\ log[3].fields = log[1].fields
        /\ (Is200(log[3]) /\ log[3].resp.body = InvalidApiUserKey)
                => result = Failure(InvalidApiUserKey)

(* C2 amended: the invalid-session response triggers exactly one login     *)
(* request; when that login succeeds it is followed by exactly one retry   *)
(* of the same request, and when it fails there is no retry; if the        *)
(* retried response is again the invalid-session text, the call returns    *)
(* that text as an error and sends no further login or request.            *)
C2_OneLoginThenRetryIfLoggedIn ==
    SessionRejected =>
        /\ Len(log) <= 3
        /\ Len(log) >= 2 => IsLoginExchange(log[2])
        /\ Len(log) = 3 =>
             /\ LoginSucceeded(log[2])
             /\ ~IsLoginExchange(log[3])
             /\ log[3].url = log[1].url
             /\ log[3].fields = log[1].fields
        /\ CallDone =>
             /\ Len(log) >= 2
             /\ LoginSucceeded(log[2]) <=> Len(log) = 3
             /\ (Len(log) = 3 /\ Is200(log[3]) /\ log[3].resp.body = InvalidApiUserKey)
                    => result = Failure(InvalidApiUserKey)

C2_Witness ==
    /\ SessionRejected
    /\ CallDone
    /\ Len(log) = 3
    /\ Is200(log[3])
    /\ log[3].resp.body = InvalidApiUserKey
    /\ result.err

ReLoginFailed ==
    /\ SessionRejected
    /\ Len(log) >= 2
    /\ ~LoginSucceeded(log[2])

(* C5: when the re-login triggered by an invalid-session response fails    *)
(* (transport error, non-200 status or error-prefixed body), the call      *)
(* returns an error wrapping the login error's text with the               *)
(* re-authentication context, the request is not retried, and the session  *)
(* key keeps the value it had before the call.                             *)
C5_ReAuthFailure ==
    ReLoginFailed =>
        /\ Len(log) = 2
        /\ sessionKey = call.startKey
        /\ \A i \in 1..Len(stack) : stack[i].pc # "send"
        /\ CallDone =>
             result = Failure(<<ReAuthContext>> \o ExchangeErrorText(log[2]))

C5_Witness ==
    /\ ReLoginFailed
    /\ CallDone
    /\ log[2].resp.status = 500
    /\ call.startKey # <<>>

ExchangeFailed(e) == e.resp.kind # "http" \/ e.resp.status # 200

\* What C9 says of every state of a Client call.
FailureEndsCall ==
    call.op \in ClientCalls =>
        /\ Len(log) <= 3
        /\ Len(stack) <= 3
        /\ \A i \in 1..Len(log) :
             ExchangeFailed(log[i]) =>
                /\ i = Len(log)
                /\ \A j \in 1..Len(stack) : stack[j].pc \notin {"send", "start"}
                /\ stack # <<>> => ret.set /\ ret.err
                /\ CallDone => result.err
        /\ Len(log) = 3 =>
             /\ IsLoginExchange(log[2])
             /\ ~IsLoginExchange(log[1])
             /\ ~IsLoginExchange(log[3])
        /\ call.active => (stack # <<>> \/ ret.set \/ call.op = "NewClient")

(* C9: in every Client call a transport failure or a non-200 status on any *)
(* exchange ends the call with an error and no exchange follows it; a      *)
(* non-200 response never triggers re-authentication, whatever its body;   *)
(* so a call performs at most three exchanges (request, login, retry), and *)
(* every call that was made returns.                                       *)
C9_FailureEndsCallAndCallReturns ==
    /\ []FailureEndsCall
    /\ (call.active ~> CallDone)

C9_Witness ==
    /\ call.op \in ReAuthCalls
    /\ CallDone
    /\ Len(log) = 1
    /\ log[1].resp.kind = "http"
    /\ log[1].resp.status = 500
    /\ log[1].resp.body = InvalidApiUserKey
    /\ result.err

Has200 == \E i \in 1..Len(log) : Is200(log[i])
Last200 ==
    CHOOSE i \in 1..Len(log) :
        Is200(log[i]) /\ \A j \in (i + 1)..Len(log) : ~Is200(log[j])
ApiErrorAnswered ==
    /\ call.op \in ClientCalls
    /\ CallDone
    /\ Has200
    /\ HasPrefix(log[Last200].resp.body, <<BadApiRequest>>)
    /\ ~(Last200 = 1 /\ SessionRejected)

NoErrorBodyAccepted ==
    /\ ~HasPrefix(sessionKey, <<BadApiRequest>>)
    /\ (call.op \in ClientCalls /\ CallDone /\ ~result.err /\ log # <<>>) =>
            /\ Is200(Last(log))
            /\ ~HasPrefix(Last(log).resp.body, <<BadApiRequest>>)
            /\ call.op \in {"GetRawUserPaste", "GetRecentPastes"} =>
                  /\ result.val = Last(log).resp.body
                  /\ ~HasPrefix(result.val, <<BadApiRequest>>)

(* C4 as stated: when the last 200 response of a Client call has a body    *)
(* starting with "Bad API request" (and is not the invalid-session text    *)
(* consumed by the one allowed re-authentication), the call returns an     *)
(* error whose text is that body verbatim; no Client call and no login     *)
(* returns such a body as a success value or stores it as the session key. *)
C4_ApiErrorVerbatim ==
    /\ ApiErrorAnswered => result = Failure(log[Last200].resp.body)
    /\ NoErrorBodyAccepted

(* C4 amended: ... the call returns an error whose text is that body       *)
(* verbatim, or, when that response answered the automatic re-login, that  *)
(* body after the re-authentication context; no Client call and no login   *)
(* returns such a body as a success value or stores it as the session key. *)
C4_ApiErrorVerbatimOrWrapped ==
    /\ ApiErrorAnswered =>
          IF SessionRejected /\ Last200 = 2
            THEN result = Failure(<<ReAuthContext>> \o log[2].resp.body)
            ELSE result = Failure(log[Last200].resp.body)
    /\ NoErrorBodyAccepted

C4_Witness ==
    /\ ApiErrorAnswered
    /\ call.op = "CreatePaste"
    /\ Len(log) = 3
    /\ log[3].resp.body = <<BadApiRequest, InvalidKeySuffix, "abc123">>
    /\ result.val = log[3].resp.body

LoginReturning == stack # <<>> /\ Top.fn = "login" /\ Top.pc = "wait" /\ ret.set

(* C6: the session key changes only by a successful login exchange, which  *)
(* sets it to exactly the login response body; a failed login and every    *)
(* other step leave it unchanged; username, password and developer API key *)
(* never change.                                                           *)
C6_SessionKeyOnlyByLogin ==
    [][ /\ username' = username
        /\ password' = password
        /\ developerApiKey' = developerApiKey
        /\ sessionKey' # sessionKey =>
              /\ LoginReturning
              /\ ~ret.err
              /\ log # <<>>
              /\ LoginSucceeded(Last(log))
        /\ (LoginReturning /\ ~ret.err) => sessionKey' = Last(log).resp.body
        /\ (LoginReturning /\ ret.err) => sessionKey' = sessionKey ]_vars

C6_Witness ==
    /\ call.op \in ReAuthCalls
    /\ CallDone
    /\ Len(log) = 3
    /\ sessionKey # call.startKey
    /\ sessionKey = log[2].resp.body
    /\ sessionKey = <<PastebinUrl, "abc123">>

====
